---- MODULE Spec2Model ----
(***************************************************************************)
(* Model of sentry/api/endpoints/organization_integration_request.py:      *)
(* the POST handler of OrganizationIntegrationRequestEndpoint together     *)
(* with get_url and get_provider_name.  One request is followed from its   *)
(* arrival to its response (or to the exception that leaves the handler),  *)
(* while the organization's owner set may change underneath it and the     *)
(* queued e-mail task is delivered or lost in the background.              *)
(***************************************************************************)
EXTENDS Integers, Sequences, FiniteSets, TLC

(* ---------------------------- bounds ----------------------------------- *)
\* longest message text of a request body
MaxLen == 3
\* number of concurrent changes of the owner set during one request
MaxOwnerChanges == 1

(* ---------------------------- universe --------------------------------- *)
\* Python's None, as a value distinct from every text of the input sets
None == "<None>"

Users == {"alice", "bob", "carol"}
Slugs == {"slack", "webhooks"}
\* the characters a message text is made of; " " is the only whitespace
Chars == {" ", "a"}
Whitespace == {" "}

\* the provider types get_provider_name recognises
ValidTypes == {"sentry_app", "first_party", "plugin"}
\* what a client may put in provider_type (None: the key is absent)
TypeInputs == ValidTypes \cup {"integration", None}
\* what a client may put in provider_slug (None: the key is absent)
SlugInputs == Slugs \cup {None}

\* the organization the URL routes to, and the requesting user
OrgSlug == "acme"
OrgName == "Acme"
BaseUrl == "https://sentry.example"

Email(u) == u \o "@x"

\* display names held by the three registries, distinct per registry
SentryAppNames == [slack |-> "Slack App", webhooks |-> "Webhooks App"]
IntegrationNames == [slack |-> "Slack", webhooks |-> "Webhooks"]
PluginTitles == [slack |-> "Slack (Legacy)", webhooks |-> "WebHooks"]

RECURSIVE SeqsUpTo(_)
SeqsUpTo(n) ==
    IF n = 0 THEN {<<>>}
    ELSE LET shorter == SeqsUpTo(n - 1)
         IN  shorter \cup {Append(s, c) : s \in {t \in shorter : Len(t) = n - 1}, c \in Chars}

\* the message field of a request body: absent, JSON null, or a text
MessageInputs ==
    {[kind |-> "absent", val |-> <<>>], [kind |-> "null", val |-> <<>>]}
    \cup {[kind |-> "str", val |-> s] : s \in SeqsUpTo(MaxLen)}

VARIABLES
    request,        \* request.data: provider_type, provider_slug, message
    requester,      \* request.user
    owners,         \* the organization's current owner set
    sentryApps,     \* slugs of the installed SentryApp rows
    integrations,   \* slugs registered in sentry.integrations
    plugins,        \* slugs registered in sentry.plugins.base.plugins
    pc,             \* position of the handler
    message_option, \* local of post
    resolution,     \* outcome of the get_provider_name call
    ownersSeen,     \* owner ids read by the owner check
    urlResult,      \* outcome of the get_url call
    outbox,         \* messages handed to send_async
    delivery,       \* state of the queued e-mail task
    response,       \* the Response returned
    error,          \* the exception that left the handler
    changes         \* owner-set changes so far

vars == <<request, requester, owners, sentryApps, integrations, plugins, pc,
          message_option, resolution, ownersSeen, urlResult, outbox,
          delivery, response, error, changes>>

(* ---------------------------- values ----------------------------------- *)
NoResponse == [status |-> 0, body |-> ""]
NoCall == [called |-> FALSE, ok |-> FALSE, val |-> "", type |-> "",
           message |-> "", consulted |-> {}]

Return(v, regs) == [called |-> TRUE, ok |-> TRUE, val |-> v, type |-> "",
                    message |-> "", consulted |-> regs]
Raise(t, m, regs) == [called |-> TRUE, ok |-> FALSE, val |-> "", type |-> t,
                      message |-> m, consulted |-> regs]

\* "{}".format(x): None prints as the text None
Format(x) == IF x = None THEN "None" ELSE x

(* ---------------------------- str.strip -------------------------------- *)
RECURSIVE lstrip(_)
lstrip(s) ==
    IF s = <<>> THEN s
    ELSE IF Head(s) \in Whitespace THEN lstrip(Tail(s)) ELSE s

RECURSIVE rstrip(_)
rstrip(s) ==
    IF s = <<>> THEN s
    ELSE IF s[Len(s)] \in Whitespace THEN rstrip(SubSeq(s, 1, Len(s) - 1)) ELSE s

strip(s) == rstrip(lstrip(s))

\* request.data.get("message", "").strip()
MessageOption(m) ==
    CASE m.kind = "absent" -> Return(strip(<<>>), {})
      [] m.kind = "str"    -> Return(strip(m.val), {})
      [] m.kind = "null"   ->
            [called |-> TRUE, ok |-> FALSE, val |-> <<>>, type |-> "AttributeError",
             message |-> "'NoneType' object has no attribute 'strip'", consulted |-> {}]

(* ---------------------------- get_url ---------------------------------- *)
\* the dict literal of get_url, read with .get
UrlSegment(provider_type) ==
    CASE provider_type = "sentryapp"   -> "sentry-apps"
      [] provider_type = "plugin"      -> "plugins"
      [] provider_type = "integration" -> "integrations"
      [] OTHER                         -> None

RECURSIVE join_from(_, _, _)
join_from(sep, parts, i) ==
    IF i > Len(parts) THEN ""
    ELSE IF i = 1 THEN parts[i] \o join_from(sep, parts, i + 1)
    ELSE sep \o parts[i] \o join_from(sep, parts, i + 1)

\* u"/".join(parts): a None among the parts is a TypeError
join(sep, parts) ==
    IF \E i \in 1..Len(parts) : parts[i] = None
    THEN Raise("TypeError", "sequence item: expected string or Unicode, NoneType found", {})
    ELSE Return(join_from(sep, parts, 1), {})

absolute_uri(path) == BaseUrl \o path

get_url(organization_slug, provider_type, provider_slug) ==
    LET joined == join("/", <<"/settings", organization_slug,
                             UrlSegment(provider_type), provider_slug>>)
    IN  IF joined.ok THEN Return(absolute_uri(joined.val), {}) ELSE joined

(* ---------------------------- registries ------------------------------- *)
\* SentryApp.objects.get(slug=...): the row, or DoesNotExist
SentryAppGet(slug) ==
    IF slug \in sentryApps
    THEN Return(SentryAppNames[slug], {"sentry_app"})
    ELSE Raise("DoesNotExist", "SentryApp matching query does not exist.", {"sentry_app"})

\* integrations.get(key): the provider, or KeyError
IntegrationsGet(slug) ==
    IF slug \in integrations
    THEN Return(IntegrationNames[slug], {"first_party"})
    ELSE Raise("KeyError", Format(slug), {"first_party"})

\* plugins.get(slug): the plugin, or KeyError
PluginsGet(slug) ==
    IF slug \in plugins
    THEN Return(PluginTitles[slug], {"plugin"})
    ELSE Raise("KeyError", Format(slug), {"plugin"})

NotFound(provider_slug, regs) ==
    Raise("Exception", "Provider " \o Format(provider_slug) \o " not found", regs)

(* ---------------------------- get_provider_name ------------------------ *)
\* a resolver that sends every unrecognised type to the plugin registry
get_provider_name_fallback(provider_type, provider_slug) ==
    IF provider_type = "sentry_app" THEN
        SentryAppGet(provider_slug)
    ELSE IF provider_type = "first_party" THEN
        LET found == IntegrationsGet(provider_slug)
        IN  IF found.ok THEN found ELSE NotFound(provider_slug, found.consulted)
    ELSE
        LET found == PluginsGet(provider_slug)
        IN  IF found.ok THEN found ELSE NotFound(provider_slug, found.consulted)

\* a resolver whose first_party branch reads the plugin registry
get_provider_name_crossed(provider_type, provider_slug) ==
    IF provider_type = "sentry_app" THEN SentryAppGet(provider_slug)
    ELSE IF provider_type \in {"first_party", "plugin"} THEN
        LET found == PluginsGet(provider_slug)
        IN  IF found.ok THEN found ELSE NotFound(provider_slug, found.consulted)
    ELSE Raise("ValueError", "Invalid provider_type", {})

get_provider_name(provider_type, provider_slug) ==
    IF provider_type = "sentry_app" THEN
        LET sentry_app == SentryAppGet(provider_slug)
        IN  IF ~sentry_app.ok THEN sentry_app
            ELSE IF sentry_app.val = None
                 THEN NotFound(provider_slug, sentry_app.consulted)
                 ELSE sentry_app
    ELSE IF provider_type = "first_party" THEN
        LET found == IntegrationsGet(provider_slug)
        IN  IF found.ok THEN found
            ELSE NotFound(provider_slug, found.consulted)
    ELSE IF provider_type = "plugin" THEN
        LET found == PluginsGet(provider_slug)
        IN  IF found.ok THEN found
            ELSE NotFound(provider_slug, found.consulted)
    ELSE Raise("ValueError", "Invalid provider_type", {})

(* ---------------------------- responses -------------------------------- *)
\* a handler that answers every resolution failure with the same text
ErrorResponse_generic(err) == [status |-> 400, body |-> "Bad Request"]

\* Response({"detail": error.message}, status=400)
ErrorResponse(err) == [status |-> 400, body |-> err.message]

OwnerResponse == [status |-> 200, body |-> "User can install integration"]

\* a handler that waits for the e-mail task and reports its failure
CreatedResponse_awaiting ==
    IF delivery = "failed" THEN [status |-> 500, body |-> ""]
    ELSE [status |-> 201, body |-> ""]

\* Response(status=201)
CreatedResponse == [status |-> 201, body |-> ""]

\* an owner check that never matches
IsOwner_never(user, owner_ids) == FALSE

\* requester.id in [user.id for user in organization.get_owners()]
IsOwner(user, owner_ids) == user \in owner_ids

\* MessageBuilder(subject=..., context=...)
BuildMessage(provider_name, link) ==
    [subject |-> "Your team member requested the " \o provider_name
                 \o " integration on Sentry",
     type |-> "organization.integration.request",
     integration_link |-> link,
     integration_name |-> provider_name,
     message |-> message_option,
     organization_name |-> OrgName,
     requester_name |-> requester,
     requester_link |-> absolute_uri("/settings/" \o OrgSlug \o "/members/"
                                    \o requester \o "/")]

(* ---------------------------- initial states --------------------------- *)
Init ==
    /\ request \in [provider_type : TypeInputs, provider_slug : SlugInputs,
                    message : MessageInputs]
    /\ requester = "alice"
    /\ owners \in SUBSET Users
    /\ sentryApps \in SUBSET Slugs
    /\ integrations \in SUBSET Slugs
    /\ plugins \in SUBSET Slugs
    /\ pc = "received"
    /\ message_option = <<>>
    /\ resolution = NoCall
    /\ ownersSeen = {}
    /\ urlResult = NoCall
    /\ outbox = <<>>
    /\ delivery = "none"
    /\ response = NoResponse
    /\ error = ""
    /\ changes = 0

(* ---------------------------- the handler ------------------------------ *)
\* lines 88-90: read the three fields, strip the message
PostValidate ==
    /\ pc = "received"
    /\ LET m == MessageOption(request.message)
       IN  IF m.ok
           THEN /\ message_option' = m.val
                /\ pc' = "validated"
                /\ error' = error
           ELSE /\ message_option' = message_option
                /\ pc' = "raised"
                /\ error' = m.type
    /\ UNCHANGED <<request, requester, owners, sentryApps, integrations, plugins,
                   resolution, ownersSeen, urlResult, outbox, delivery,
                   response, changes>>

\* lines 92-95: resolve the provider name, answer 400 on any exception
PostResolve ==
    /\ pc = "validated"
    /\ LET r == get_provider_name(request.provider_type, request.provider_slug)
       IN  /\ resolution' = r
           /\ IF r.ok
              THEN /\ pc' = "resolved"
                   /\ response' = response
              ELSE /\ pc' = "done"
                   /\ response' = ErrorResponse(r)
    /\ UNCHANGED <<request, requester, owners, sentryApps, integrations, plugins,
                   message_option, ownersSeen, urlResult, outbox, delivery,
                   error, changes>>

\* lines 98-100: first read of the owners; an owner is answered 200
PostOwnerCheck ==
    /\ pc = "resolved"
    /\ ownersSeen' = owners
    /\ IF IsOwner(requester, owners)
       THEN /\ pc' = "done"
            /\ response' = OwnerResponse
       ELSE /\ pc' = "notifying"
            /\ response' = response
    /\ UNCHANGED <<request, requester, owners, sentryApps, integrations, plugins,
                   message_option, resolution, urlResult, outbox, delivery,
                   error, changes>>

\* lines 102-123: build the message (get_url included), second read of the
\* owners, send_async
PostNotify ==
    /\ pc = "notifying"
    /\ LET u == get_url(OrgSlug, request.provider_type, request.provider_slug)
       IN  /\ urlResult' = u
           /\ IF u.ok
              THEN /\ outbox' = Append(outbox,
                           [msg |-> BuildMessage(resolution.val, u.val),
                            to |-> {Email(user) : user \in owners}])
                   /\ delivery' = "queued"
                   /\ pc' = "sent"
                   /\ error' = error
              ELSE /\ outbox' = outbox
                   /\ delivery' = delivery
                   /\ pc' = "raised"
                   /\ error' = u.type
    /\ UNCHANGED <<request, requester, owners, sentryApps, integrations, plugins,
                   message_option, resolution, ownersSeen, response, changes>>

\* line 125
PostReturn ==
    /\ pc = "sent"
    /\ response' = CreatedResponse
    /\ pc' = "done"
    /\ UNCHANGED <<request, requester, owners, sentryApps, integrations, plugins,
                   message_option, resolution, ownersSeen, urlResult, outbox,
                   delivery, error, changes>>

(* ---------------------------- the environment -------------------------- *)
InFlight == pc \in {"received", "validated", "resolved", "notifying"}

\* another request makes a member an owner while this one is in flight
AddOwner ==
    /\ InFlight
    /\ changes < MaxOwnerChanges
    /\ \E u \in Users \ owners : owners' = owners \cup {u}
    /\ changes' = changes + 1
    /\ UNCHANGED <<request, requester, sentryApps, integrations, plugins, pc,
                   message_option, resolution, ownersSeen, urlResult, outbox,
                   delivery, response, error>>

\* another request takes ownership away while this one is in flight
RemoveOwner ==
    /\ InFlight
    /\ changes < MaxOwnerChanges
    /\ \E u \in owners : owners' = owners \ {u}
    /\ changes' = changes + 1
    /\ UNCHANGED <<request, requester, sentryApps, integrations, plugins, pc,
                   message_option, resolution, ownersSeen, urlResult, outbox,
                   delivery, response, error>>

\* the background task sends the mail
DeliverOk ==
    /\ delivery = "queued"
    /\ delivery' = "delivered"
    /\ UNCHANGED <<request, requester, owners, sentryApps, integrations, plugins,
                   pc, message_option, resolution, ownersSeen, urlResult, outbox,
                   response, error, changes>>

\* the background task fails
DeliverFail ==
    /\ delivery = "queued"
    /\ delivery' = "failed"
    /\ UNCHANGED <<request, requester, owners, sentryApps, integrations, plugins,
                   pc, message_option, resolution, ownersSeen, urlResult, outbox,
                   response, error, changes>>

Next ==
    \/ PostValidate
    \/ PostResolve
    \/ PostOwnerCheck
    \/ PostNotify
    \/ PostReturn
    \/ AddOwner
    \/ RemoveOwner
    \/ DeliverOk
    \/ DeliverFail

Spec == Init /\ [][Next]_vars

Terminated == pc \in {"done", "raised"}

TypeOK ==
    /\ pc \in {"received", "validated", "resolved", "notifying", "sent", "done", "raised"}
    /\ owners \subseteq Users
    /\ Len(outbox) <= 1
    /\ delivery \in {"none", "queued", "delivered", "failed"}
(* ---------------------------- properties ------------------------------- *)
\* the registry the documentation assigns to a provider type
RegistryOf(provider_type) ==
    CASE provider_type = "sentry_app"  -> sentryApps
      [] provider_type = "first_party" -> integrations
      [] provider_type = "plugin"      -> plugins

DisplayNameIn(provider_type, slug) ==
    CASE provider_type = "sentry_app"  -> SentryAppNames[slug]
      [] provider_type = "first_party" -> IntegrationNames[slug]
      [] provider_type = "plugin"      -> PluginTitles[slug]

\* the path segment the documentation assigns to a provider type
DocumentedSegment(provider_type) ==
    CASE provider_type = "sentry_app"  -> "sentry-apps"
      [] provider_type = "plugin"      -> "plugins"
      [] provider_type = "first_party" -> "integrations"

\* t is s without its leading and trailing whitespace
IsTrimOf(t, s) ==
    /\ t # <<>> => (t[1] \notin Whitespace /\ t[Len(t)] \notin Whitespace)
    /\ \E i, j \in 0..Len(s) :
          /\ i + j <= Len(s)
          /\ t = SubSeq(s, i + 1, Len(s) - j)
          /\ \A k \in 1..i : s[k] \in Whitespace
          /\ \A k \in (Len(s) - j + 1)..Len(s) : s[k] \in Whitespace
          /\ (t = <<>> => i + j = Len(s))

MessageText(m) == IF m.kind = "str" THEN m.val ELSE <<>>

\* C1: a request whose provider resolved and whose requester the owner check
\* did not find among the owners ends with exactly one dispatch, addressed to
\* the e-mail of every owner, and with status 201.
C1_NonOwnerIsNotified ==
    (Terminated /\ resolution.ok /\ requester \notin ownersSeen)
        => /\ Len(outbox) = 1
           /\ outbox[1].to = {Email(u) : u \in owners}
           /\ response.status = 201

\* C2 as stated: a request of an owner is answered 200 with the body
\* "User can install integration" and dispatches nothing, whatever
\* provider_type and provider_slug it carries.
C2_OwnerAlways200 ==
    (pc = "done" /\ changes = 0 /\ requester \in owners)
        => (outbox = <<>> /\ response = OwnerResponse)

\* C2 amended: when the provider name resolved and the owner check finds the
\* requester among the owners, nothing is dispatched and the response is 200
\* with the body "User can install integration".
C2_ResolvedOwner200 ==
    /\ (requester \in ownersSeen) => (outbox = <<>> /\ delivery = "none")
    /\ (Terminated /\ resolution.ok /\ requester \in ownersSeen)
          => (pc = "done" /\ response = OwnerResponse)

C2_Witness ==
    /\ pc = "done"
    /\ resolution.ok
    /\ requester \in ownersSeen
    /\ response.status = 200

\* C3: when get_provider_name fails the handler answers 400 with the
\* failure's message as detail, and no notification is ever dispatched.
C3_ResolutionFailureIs400 ==
    (resolution.called /\ ~resolution.ok)
        => /\ pc = "done"
           /\ response = [status |-> 400, body |-> resolution.message]
           /\ resolution.message # ""
           /\ outbox = <<>>
           /\ delivery = "none"

C3_Witness ==
    /\ resolution.called
    /\ resolution.type = "Exception"
    /\ requester \in owners
    /\ response.status = 400

\* C4: the handler always ends with a response whose status is 200, 201 or
\* 400; no exception leaves it.
C4_NoErrorPropagates ==
    Terminated => (pc = "done" /\ error = "" /\ response.status \in {200, 201, 400})

\* C5: the link built for the notification is
\* {base_url}/settings/{orgSlug}/{segment}/{providerSlug} with sentry_app
\* mapped to sentry-apps, plugin to plugins and first_party to integrations.
C5_LinkIsDocumentedUrl ==
    urlResult.called
        => /\ urlResult.ok
           /\ urlResult.val = BaseUrl \o "/settings/" \o OrgSlug \o "/"
                  \o DocumentedSegment(request.provider_type) \o "/"
                  \o request.provider_slug

C8_DeliveryNeverChangesResponse ==
    /\ []((pc = "done" /\ outbox # <<>>) => response = [status |-> 201, body |-> ""])
    /\ [][response # NoResponse => response' = response]_vars

C8_Witness ==
    /\ pc = "done"
    /\ delivery = "failed"
    /\ response.status = 201

\* C9: validating never fails, and the message kept (and later placed in the
\* notification context) is the body's message without surrounding
\* whitespace, the empty text when the body has none.
C9_MessageIsTrimmed ==
    pc # "received"
        => /\ error # "AttributeError"
           /\ IsTrimOf(message_option, MessageText(request.message))
           /\ outbox # <<>> => outbox[1].msg.message = message_option

\* C10: the requester's own e-mail is never among the recipients of the
\* notification their request triggers.
C10_RequesterNotNotified ==
    outbox # <<>> => Email(requester) \notin outbox[1].to
====
